---- MODULE Spec2Model ----
(***************************************************************************)
(* Generation and analysis orchestration of the AI script service:         *)
(*   - generate_script (app/api/scripts.py): plan quota check, similarity  *)
(*     lookup, LLM call, embedding, insert;                                *)
(*   - analyze_video / process_video_analysis / get_analysis_status        *)
(*     (app/api/video_analysis.py): the analysis job record and its        *)
(*     background execution.                                               *)
(***************************************************************************)
EXTENDS Integers, Sequences, FiniteSets, TLC

(***************************************************************************)
(* Bounds of the model.                                                    *)
(***************************************************************************)
\* clock ticks per day and days per month of the modelled calendar
TodsPerDay == 2
DaysPerMonth == 2
\* last clock tick
MaxTime == 4
\* generate requests per behaviour
NumReqs == 3
\* analysis jobs submitted per behaviour
MaxJobs == 2
\* executions delivered per job when delivery is at-least-once
MaxDeliveries == 2
\* regenerate requests per behaviour
NumRegens == 2
\* pieces of an LLM response
MaxTextLen == 4
\* runs of the trends radar per behaviour
MaxRuns == 3

(***************************************************************************)
(* Program constants.                                                      *)
(***************************************************************************)
\* scripts.py: if scripts_count.count >= 5
QuotaLimit == 5

\* current_user of the generate requests, and another user of the service
Caller == "u1"
Other == "u2"
Users == {Caller, Other}
Reqs == 1..NumReqs
\* UserProfile.subscription_plan: Literal["free", "creator"]
Plans == {"free", "creator"}

VARIABLES
    now,        \* server clock, datetime.now(), in ticks
    plan,       \* profiles.subscription_plan of the caller
    scripts,    \* table "scripts": per user_id, the created_at of each row
    req,        \* the caller's generate requests, in flight or finished
    overlap     \* history: some request started while another was in flight

VARIABLES
    jobs,       \* table "video_analyses": the row of each analysis id
    task,       \* process_video_analysis of each analysis id: its position
    hist,       \* history: the status values written to each row, in order
    observed    \* history: the status values a poller of each row has seen

VARIABLES
    submitResp, \* the response of the latest analyze_video request
    snaps,      \* table "trends": the snapshot rows, in insertion order
    radar,      \* TrendsRadar.run: its position
    table,      \* table "scripts": the full row of each script id
    regen,      \* the caller's regenerate requests, in flight or finished
    parsed      \* the latest LLM response parsed, with the parse result

genVars == <<now, plan, scripts, req, overlap>>
jobVars == <<jobs, task, hist, observed, submitResp>>
trendVars == <<snaps, radar>>
regenVars == <<table, regen>>
parseVars == <<parsed>>
nonGenVars == <<jobVars, trendVars, regenVars, parseVars>>
nonJobVars == <<genVars, trendVars, regenVars, parseVars>>
vars ==
    <<now, plan, scripts, req, overlap, jobs, task, hist, observed,
      submitResp, snaps, radar, table, regen, parsed>>

(***************************************************************************)
(* Calendar.                                                               *)
(***************************************************************************)
TicksPerMonth == TodsPerDay * DaysPerMonth
MonthOf(t) == t \div TicksPerMonth
TimeOfDay(t) == t % TodsPerDay
\* 00:00 of the first day of t's calendar month
MonthStart(t) == MonthOf(t) * TicksPerMonth

\* datetime.now().replace(day=1): day set to 1, the time of day is kept
QuotaCutoff(t) == MonthStart(t) + TimeOfDay(t)

RECURSIVE CountSince(_, _)
CountSince(rows, cutoff) ==
    IF rows = <<>> THEN 0
    ELSE (IF Head(rows) >= cutoff THEN 1 ELSE 0) + CountSince(Tail(rows), cutoff)

\* select("id", count="exact").eq("user_id", u).gte("created_at", cutoff)
ScriptsCount(u, t) == CountSince(scripts[u], QuotaCutoff(t))

\* the quota applied whatever the plan
SubjectToQuotaAnyPlan(p) == TRUE

\* subscription_plan == "free"
SubjectToQuota(p) == p = "free"

\* scripts_count.count >= 5
LimitReached(count) == count >= QuotaLimit

\* status the raise site itself carries: HTTPException(403) for the quota
\* check, any other exception has none (0)
RaisedStatus(site) == IF site = "quota" THEN 403 ELSE 0

\* except Exception as e: raise HTTPException(status_code=500, detail=str(e))
\* HTTPException is an Exception, so the handler also catches the 403
ExceptHandler(site) == 500

\* the quota exception built but not raised: the pipeline goes on
AfterRaiseQuotaGoesOn(site) == IF site = "quota" THEN "similar" ELSE "done"

\* a raise leaves the try block: nothing after it runs
AfterRaise(site) == "done"

IdleReq == [pc |-> "idle", raised |-> "none", outcome |-> 0, calls |-> {}]

InFlight(r) == req[r].pc \notin {"idle", "done"}

(***************************************************************************)
(* generate_script, one action per store access or external call.          *)
(***************************************************************************)
\* lines 23-37: read the profile, count this month's scripts, admit or raise
CheckQuota(r) ==
    /\ req[r].pc = "idle"
    /\ IF SubjectToQuota(plan) /\ LimitReached(ScriptsCount(Caller, now))
       THEN req' = [req EXCEPT ![r] =
                [IdleReq EXCEPT !.pc = AfterRaise("quota"), !.raised = "quota",
                                !.outcome = ExceptHandler("quota")]]
       ELSE req' = [req EXCEPT ![r] = [IdleReq EXCEPT !.pc = "similar"]]
    /\ overlap' = (overlap \/ \E q \in Reqs \ {r} : InFlight(q))
    /\ UNCHANGED <<now, plan, scripts>>
    /\ UNCHANGED nonGenVars

\* lines 40-45: get_similar_scripts (embedding of the idea, match_scripts rpc)
GetSimilar(r, ok) ==
    /\ req[r].pc = "similar"
    /\ LET called == [req[r] EXCEPT !.calls = @ \cup {"similar"}] IN
       req' = [req EXCEPT ![r] =
                IF ok THEN [called EXCEPT !.pc = "llm"]
                ELSE [called EXCEPT !.pc = AfterRaise("similar"),
                                    !.raised = "similar",
                                    !.outcome = ExceptHandler("similar")]]
    /\ UNCHANGED <<now, plan, scripts, overlap>>
    /\ UNCHANGED nonGenVars

\* lines 48-58: LLMService().generate_script
LLMGenerate(r, ok) ==
    /\ req[r].pc = "llm"
    /\ LET called == [req[r] EXCEPT !.calls = @ \cup {"llm"}] IN
       req' = [req EXCEPT ![r] =
                IF ok THEN [called EXCEPT !.pc = "embed"]
                ELSE [called EXCEPT !.pc = AfterRaise("llm"),
                                    !.raised = "llm",
                                    !.outcome = ExceptHandler("llm")]]
    /\ UNCHANGED <<now, plan, scripts, overlap>>
    /\ UNCHANGED nonGenVars

\* lines 61-62: EmbeddingService().generate_embedding(content)
Embed(r, ok) ==
    /\ req[r].pc = "embed"
    /\ LET called == [req[r] EXCEPT !.calls = @ \cup {"embed"}] IN
       req' = [req EXCEPT ![r] =
                IF ok THEN [called EXCEPT !.pc = "insert"]
                ELSE [called EXCEPT !.pc = AfterRaise("embed"),
                                    !.raised = "embed",
                                    !.outcome = ExceptHandler("embed")]]
    /\ UNCHANGED <<now, plan, scripts, overlap>>
    /\ UNCHANGED nonGenVars

\* lines 65-87: insert the row with created_at = datetime.now(), return it
Insert(r, ok) ==
    /\ req[r].pc = "insert"
    /\ LET called == [req[r] EXCEPT !.calls = @ \cup {"insert"}] IN
       IF ok
       THEN /\ scripts' = [scripts EXCEPT ![Caller] = Append(@, now)]
            /\ req' = [req EXCEPT ![r] =
                        [called EXCEPT !.pc = "done", !.outcome = 200]]
       ELSE /\ scripts' = scripts
            /\ req' = [req EXCEPT ![r] =
                        [called EXCEPT !.pc = AfterRaise("insert"),
                                       !.raised = "insert",
                                       !.outcome = ExceptHandler("insert")]]
    /\ UNCHANGED <<now, plan, overlap>>
    /\ UNCHANGED nonGenVars

\* the server clock advances
Tick ==
    /\ now < MaxTime
    /\ now' = now + 1
    /\ UNCHANGED <<plan, scripts, req, overlap>>
    /\ UNCHANGED nonGenVars

InitGen ==
    /\ now = 0
    /\ plan \in Plans
    \* the caller starts with up to QuotaLimit scripts of this month, the
    \* other user with QuotaLimit
    /\ \E k \in 0..QuotaLimit :
         scripts = [u \in Users |->
                      [i \in 1..(IF u = Caller THEN k ELSE QuotaLimit) |-> 0]]
    /\ req = [r \in Reqs |-> IdleReq]
    /\ overlap = FALSE

(***************************************************************************)
(* Video analysis jobs: analyze_video, get_analysis_status and the         *)
(* background task process_video_analysis.                                 *)
(***************************************************************************)
JobIds == 1..MaxJobs
Terminal == {"completed", "failed"}

\* no row with this id; a column never written is NULL ("none")
NoJob == [status |-> "absent", user_id |-> "none", results |-> "none",
          error |-> "none"]

\* a row inserted in status processing
QueuedRowAsProcessing(u) ==
    [status |-> "processing", user_id |-> u, results |-> "none",
     error |-> "none"]

\* lines 24-31: analysis_data, the row analyze_video inserts
QueuedRow(u) == [status |-> "queued", user_id |-> u, results |-> "none",
                 error |-> "none"]

\* lines 93-96
ProcessingPatch == [status |-> "processing"]
\* lines 103-107
CompletedPatch(results) == [status |-> "completed", results |-> results]

\* the error stored, the status left as it was
FailedPatchNoStatus(e) == [error |-> e]

\* lines 111-115
FailedPatch(e) == [status |-> "failed", error |-> e]

\* update(patch).eq("id", id): the columns of the patch replace the row's
ApplyPatch(row, patch) ==
    [f \in DOMAIN row |-> IF f \in DOMAIN patch THEN patch[f] ELSE row[f]]

\* the status column as written by a patch, appended to the history
Written(h, patch) ==
    IF "status" \in DOMAIN patch THEN Append(h, patch.status) ELSE h

\* the handler entered although the try block completed (finally for except)
AfterCompletedRunsHandler == "except"

\* lines 103-109: the try block ends with the completed update; the except
\* clause is skipped
AfterCompleted == "done"

NoTask ==
    [pc |-> "none", exc |-> "none", results |-> "none", deliveries |-> 0,
     steps |-> <<>>]

FreeJobIds == {j \in JobIds : jobs[j].status = "absent"}

\* analyze_video, lines 44-48: the response of an accepted submission
Accepted(j) == [code |-> 200, analysis_id |-> j, status |-> "queued"]

\* lines 50-51: except Exception: HTTPException(500)
SubmitFailed == [code |-> 500, analysis_id |-> 0, status |-> "none"]

\* no analyze_video request has been answered
NoResp == [code |-> 0, analysis_id |-> 0, status |-> "none"]

\* analyze_video, lines 20-51: insert the queued row, then add_task; if the
\* insert raises, the handler answers 500 and nothing is scheduled
Submit(u, ok) ==
    /\ FreeJobIds # {}
    /\ LET j == CHOOSE x \in FreeJobIds : \A y \in FreeJobIds : x <= y IN
       IF ok
       THEN /\ jobs' = [jobs EXCEPT ![j] = QueuedRow(u)]
            /\ hist' = [hist EXCEPT ![j] = <<"queued">>]
            /\ task' = [task EXCEPT ![j] =
                         [NoTask EXCEPT !.pc = "start", !.deliveries = 1]]
            /\ submitResp' = Accepted(j)
       ELSE /\ submitResp' = SubmitFailed
            /\ UNCHANGED <<jobs, hist, task>>
    /\ UNCHANGED observed
    /\ UNCHANGED nonJobVars

\* get_analysis_status, lines 60-65:
\* select("*").eq("id", analysis_id).eq("user_id", current_user.id).single()
FindAnalysis(tbl, j, u) ==
    IF tbl[j].status # "absent" /\ tbl[j].user_id = u THEN tbl[j] ELSE NoJob

\* lines 67-70: the row, or 404 "Analysis not found"
AnalysisStatusResponse(tbl, j, u) ==
    IF FindAnalysis(tbl, j, u).status # "absent"
    THEN [code |-> 200, body |-> FindAnalysis(tbl, j, u)]
    ELSE [code |-> 404, body |-> NoJob]

\* get_analysis_status, lines 60-70: the row of this id and this user, or 404
GetAnalysisStatus(j, u) ==
    /\ IF AnalysisStatusResponse(jobs, j, u).code = 200
       THEN observed' = [observed EXCEPT ![j] =
                IF @ # <<>> /\ @[Len(@)] = jobs[j].status THEN @
                ELSE Append(@, jobs[j].status)]
       ELSE UNCHANGED observed
    /\ UNCHANGED <<jobs, task, hist>>
    /\ UNCHANGED <<submitResp, nonJobVars>>

\* process_video_analysis, lines 93-96: status := processing
MarkProcessing(j, ok) ==
    /\ task[j].pc = "start"
    /\ IF ok
       THEN /\ jobs' = [jobs EXCEPT ![j] = ApplyPatch(@, ProcessingPatch)]
            /\ hist' = [hist EXCEPT ![j] = Written(@, ProcessingPatch)]
            /\ task' = [task EXCEPT ![j].pc = "analyze"]
       ELSE /\ task' = [task EXCEPT ![j].pc = "except", ![j].exc = "store"]
            /\ UNCHANGED <<jobs, hist>>
    /\ UNCHANGED observed
    /\ UNCHANGED <<submitResp, nonJobVars>>

\* lines 99-100: VideoAnalysisService().analyze_video(video_url) returns the
\* results, or the technical analysis, the LLM call or the recommendations
\* raise
AnalyzeErrors == {"technical", "llm", "recommendations"}

\* VideoAnalysisService.analyze_video, lines 136-148: the three steps in the
\* order they are awaited
Pipeline == <<"technical", "llm", "recommendations">>

\* the steps up to and including step e
UpTo(e) == SubSeq(Pipeline, 1, CHOOSE i \in DOMAIN Pipeline : Pipeline[i] = e)

\* a pipeline that calls a step again after it has raised
StepsRunRetry(e) == IF e = "none" THEN Pipeline ELSE UpTo(e) \o <<e>>

\* the steps one call of analyze_video invokes when step e raises (all of
\* them when none does): an exception leaves analyze_video at once
StepsRun(e) == IF e = "none" THEN Pipeline ELSE UpTo(e)

Analyze(j, e) ==
    /\ task[j].pc = "analyze"
    /\ task' = [task EXCEPT ![j] =
                 IF e = "none"
                 THEN [@ EXCEPT !.pc = "complete", !.results = "results",
                                !.steps = @ \o StepsRun(e)]
                 ELSE [@ EXCEPT !.pc = "except", !.exc = e,
                                !.steps = @ \o StepsRun(e)]]
    /\ UNCHANGED <<jobs, hist, observed>>
    /\ UNCHANGED <<submitResp, nonJobVars>>

\* _analyze_with_google, lines 196-201: duration in seconds and shot_count
\* of the technical results the recommendations read
Durations == {0, 60, 180, 200}
ShotCounts == {10, 20, 30}
TechnicalResults == [duration : Durations, shot_count : ShotCounts]

\* _analyze_with_llm, lines 238-242: the parsed JSON object with its
\* virality_score, or the form returned when the response does not parse
ViralityScores == {50, 70, 85}
ParseFailure == [error |-> "Could not parse LLM response", raw |-> "raw"]
QualitativeResults ==
    [virality_score : ViralityScores] \cup {ParseFailure}

\* the three recommendation strings, lines 255, 260, 264
Shorten == "Considera acortar el video"
Pacing == "Aumenta el ritmo"
StrongerHook == "Refuerza el hook inicial"

\* a / b of numbers: ZeroDivisionError when b is 0, else the exact quotient
\* as numerator and denominator
Quotient(a, b) ==
    IF b = 0 THEN [raised |-> TRUE, num |-> 0, den |-> 1]
    ELSE [raised |-> FALSE, num |-> a, den |-> b]

\* line 258: shot_count / (duration / 60); duration / 60 is 0 exactly when
\* duration is 0
CutsPerMinute(t) ==
    LET minutes == Quotient(t.duration, 60) IN
    IF minutes.num = 0 THEN Quotient(t.shot_count, 0)
    ELSE Quotient(t.shot_count * minutes.den, minutes.num)

\* quotient < k, for a positive denominator
Below(quotient, k) == quotient.num < k * quotient.den

\* a duration test that includes three minutes
IsLongInclusive(t) == t.duration >= 180

\* line 254
IsLong(t) == t.duration > 180

\* line 263: qualitative.get('virality_score', 0)
Score(q) ==
    IF "virality_score" \in DOMAIN q THEN q.virality_score ELSE 0

\* _generate_recommendations, lines 244-266
GenerateRecommendations(t, q) ==
    IF CutsPerMinute(t).raised THEN [raised |-> TRUE, list |-> <<>>]
    ELSE [raised |-> FALSE,
          list |-> (IF IsLong(t) THEN <<Shorten>> ELSE <<>>)
                   \o (IF Below(CutsPerMinute(t), 10) THEN <<Pacing>>
                       ELSE <<>>)
                   \o (IF Score(q) < 70 THEN <<StrongerHook>> ELSE <<>>)]

\* analyze_video, lines 133-148, when the technical analysis returns t and
\* the LLM analysis returns q: the results with the recommendations, or the
\* exception of _generate_recommendations
AnalyzeVideo(j, t, q) ==
    /\ task[j].pc = "analyze"
    /\ task' = [task EXCEPT ![j] =
                 IF GenerateRecommendations(t, q).raised
                 THEN [@ EXCEPT !.pc = "except", !.exc = "recommendations",
                                !.steps = @ \o StepsRun("recommendations")]
                 ELSE [@ EXCEPT !.pc = "complete",
                                !.results =
                                   [technical |-> t, qualitative |-> q,
                                    recommendations |->
                                       GenerateRecommendations(t, q).list],
                                !.steps = @ \o StepsRun("none")]]
    /\ UNCHANGED <<jobs, hist, observed>>
    /\ UNCHANGED <<submitResp, nonJobVars>>

\* lines 103-107: status := completed, results := results
MarkCompleted(j, ok) ==
    /\ task[j].pc = "complete"
    /\ IF ok
       THEN /\ jobs' = [jobs EXCEPT ![j] =
                         ApplyPatch(@, CompletedPatch(task[j].results))]
            /\ hist' = [hist EXCEPT ![j] =
                         Written(@, CompletedPatch(task[j].results))]
            /\ task' = [task EXCEPT ![j].pc = AfterCompleted]
       ELSE /\ task' = [task EXCEPT ![j].pc = "except", ![j].exc = "store"]
            /\ UNCHANGED <<jobs, hist>>
    /\ UNCHANGED observed
    /\ UNCHANGED <<submitResp, nonJobVars>>

\* lines 109-115: except Exception as e: status := failed, error := str(e);
\* if this update raises too, the exception leaves the task
HandleError(j, ok) ==
    /\ task[j].pc = "except"
    /\ IF ok
       THEN /\ jobs' = [jobs EXCEPT ![j] =
                         ApplyPatch(@, FailedPatch(task[j].exc))]
            /\ hist' = [hist EXCEPT ![j] =
                         Written(@, FailedPatch(task[j].exc))]
            /\ task' = [task EXCEPT ![j].pc = "done"]
       ELSE /\ task' = [task EXCEPT ![j].pc = "raised"]
            /\ UNCHANGED <<jobs, hist>>
    /\ UNCHANGED observed
    /\ UNCHANGED <<submitResp, nonJobVars>>

\* at-least-once delivery: the execution of a job is delivered again after
\* an earlier delivery has ended
Redeliver(j) ==
    /\ task[j].pc \in {"done", "raised"}
    /\ task[j].deliveries < MaxDeliveries
    /\ task' = [task EXCEPT ![j] =
                 [NoTask EXCEPT !.pc = "start", !.deliveries = task[j].deliveries + 1]]
    /\ UNCHANGED <<jobs, hist, observed>>
    /\ UNCHANGED <<submitResp, nonJobVars>>

(***************************************************************************)
(* The trends radar: TrendsRadar.run and save_analysis.                    *)
(***************************************************************************)
\* runs counts the runs of the radar started so far
IdleRadar == [pc |-> "idle", exc |-> "none", runs |-> 1]

\* run, lines 479-483: fetch_trends or the LLM call of analyze_trends raise
RadarErrors == {"fetch", "llm"}

\* save_analysis, lines 456-460
CompletedSnap(t) == [date |-> t, status |-> "completed", error |-> "none"]

\* a failed snapshot that does not say what failed
FailedSnapWithoutError(t, e) ==
    [date |-> t, status |-> "failed", error |-> "none"]

\* a cutoff before every snapshot: the prune deletes nothing
PruneCutoffKeepsAll(t) == 0

\* run, lines 496-500
FailedSnap(t, e) == [date |-> t, status |-> "failed", error |-> e]

\* save_analysis, line 466: datetime.now().replace(day=1) sets the day of
\* the month to 1 and keeps the time of day
PruneCutoff(t) == MonthStart(t) + TimeOfDay(t)

\* lines 467-470: delete().lt("date", cutoff_date)
Kept(rows, cutoff) ==
    LET Keep(row) == row.date >= cutoff IN SelectSeq(rows, Keep)

\* run, lines 479-483: fetch the trends and analyze them with the LLM
RadarFetch(e) ==
    /\ radar.pc = "idle"
    /\ radar' = IF e = "none"
                THEN [radar EXCEPT !.pc = "insert"]
                ELSE [radar EXCEPT !.pc = "except", !.exc = e]
    /\ UNCHANGED snaps
    /\ UNCHANGED <<genVars, jobVars, regenVars, parseVars>>

\* save_analysis, line 463: insert the completed snapshot
RadarInsert(ok) ==
    /\ radar.pc = "insert"
    /\ IF ok
       THEN /\ snaps' = Append(snaps, CompletedSnap(now))
            /\ radar' = [radar EXCEPT !.pc = "prune"]
       ELSE /\ radar' = [radar EXCEPT !.pc = "except", !.exc = "store"]
            /\ UNCHANGED snaps
    /\ UNCHANGED <<genVars, jobVars, regenVars, parseVars>>

\* save_analysis, lines 466-470: delete the snapshots older than the cutoff
RadarPrune(ok) ==
    /\ radar.pc = "prune"
    /\ IF ok
       THEN /\ snaps' = Kept(snaps, PruneCutoff(now))
            /\ radar' = [radar EXCEPT !.pc = "done"]
       ELSE /\ radar' = [radar EXCEPT !.pc = "except", !.exc = "store"]
            /\ UNCHANGED snaps
    /\ UNCHANGED <<genVars, jobVars, regenVars, parseVars>>

\* run, lines 492-501: except Exception as e: insert the failed snapshot;
\* if this insert raises too, the exception leaves run
RadarHandle(ok) ==
    /\ radar.pc = "except"
    /\ IF ok
       THEN /\ snaps' = Append(snaps, FailedSnap(now, radar.exc))
            /\ radar' = [radar EXCEPT !.pc = "done"]
       ELSE /\ radar' = [radar EXCEPT !.pc = "raised"]
            /\ UNCHANGED snaps
    /\ UNCHANGED <<genVars, jobVars, regenVars, parseVars>>

\* main, lines 503-506: the cron job starts the next run after the last one
\* has ended
RadarAgain ==
    /\ radar.pc \in {"done", "raised"}
    /\ radar.runs < MaxRuns
    /\ radar' = [IdleRadar EXCEPT !.runs = radar.runs + 1]
    /\ UNCHANGED snaps
    /\ UNCHANGED <<genVars, jobVars, regenVars, parseVars>>

(***************************************************************************)
(* Regeneration of a stored script: regenerate_script_element.             *)
(***************************************************************************)
RegenReqs == 1..NumRegens

\* the ids a request may name: the caller's script, a script of the other
\* user, and an id no row has
OwnScript == "s1"
ForeignScript == "s2"
MissingScript == "s3"
ScriptIds == {OwnScript, ForeignScript, MissingScript}

\* ScriptRegenerateRequest.element
Elements == {"hook", "intro", "body", "cta", "full"}

\* EmbeddingService.generate_embedding(text), lines 416-419: the vector of
\* the text, written as the text it is the vector of
EmbeddingOf(text) == [null |-> FALSE, of |-> text]

\* a null embedding
NullEmbedding == [null |-> TRUE, of |-> 0]

\* a row of table "scripts" as generate_script inserts it; a text is written
\* as the number of the request whose LLM answer it is, 0 for the text the
\* script was generated with
NewRow(i, u) ==
    [id |-> i, user_id |-> u, title |-> 0, content |-> 0, hook |-> 0,
     call_to_action |-> 0, tone |-> "casual", duration |-> "60s",
     platform |-> "youtube", metadata |-> "idea",
     embedding |-> EmbeddingOf(0), created_at |-> 0, updated_at |-> 0]

\* response.data of a query that matches no row
NoData == NewRow("none", "none")

InitTable ==
    [i \in {OwnScript, ForeignScript} |->
        NewRow(i, IF i = OwnScript THEN Caller ELSE Other)]

\* a lookup that filters on the id alone
FindScriptAnyOwner(tbl, i, u) == IF i \in DOMAIN tbl THEN tbl[i] ELSE NoData

\* lines 137-142 and 114-119:
\* select("*").eq("id", script_id).eq("user_id", current_user.id).single()
FindScript(tbl, i, u) ==
    IF i \in DOMAIN tbl /\ tbl[i].user_id = u THEN tbl[i] ELSE NoData

\* `if not response.data`
HasData(row) == row.id # "none"

\* get_script, lines 109-126: the script, or 404 "Script not found"
GetScriptResponse(tbl, i, u) ==
    IF HasData(FindScript(tbl, i, u))
    THEN [code |-> 200, body |-> FindScript(tbl, i, u)]
    ELSE [code |-> 404, body |-> NoData]

\* the LLM answer to request r
NewText(r) == r

\* a hook regeneration that rewrites the content as well
ApplyElementHookRewritesContent(script, el, new) ==
    IF el = "hook" THEN [script EXCEPT !.hook = new, !.content = new]
    ELSE IF el = "cta" THEN [script EXCEPT !.call_to_action = new]
    ELSE IF el = "full"
    THEN [script EXCEPT !.content = new, !.hook = new,
                        !.call_to_action = new, !.title = new]
    ELSE script

\* a full regeneration that keeps the old title
ApplyElementFullKeepsTitle(script, el, new) ==
    IF el = "hook" THEN [script EXCEPT !.hook = new]
    ELSE IF el = "cta" THEN [script EXCEPT !.call_to_action = new]
    ELSE IF el = "full"
    THEN [script EXCEPT !.content = new, !.hook = new,
                        !.call_to_action = new]
    ELSE script

\* lines 152-184: what each branch assigns in the loaded row; no branch is
\* taken for another element
ApplyElement(script, el, new) ==
    IF el = "hook" THEN [script EXCEPT !.hook = new]
    ELSE IF el = "cta" THEN [script EXCEPT !.call_to_action = new]
    ELSE IF el = "full"
    THEN [script EXCEPT !.content = new, !.hook = new,
                        !.call_to_action = new, !.title = new]
    ELSE script

\* the elements whose branch calls the LLM
Generated == {"hook", "cta", "full"}

\* script is the local variable of the handler, the row it loaded and then
\* assigns in; loaded is history, the row as it was loaded
IdleRegen ==
    [pc |-> "idle", id |-> "none", element |-> "none", script |-> NoData,
     loaded |-> NoData, outcome |-> 0, calls |-> {}]

\* lines 137-147: load the caller's script, or raise 404
RegenLoad(r, i, el) ==
    /\ regen[r].pc = "idle"
    /\ LET row == FindScript(table, i, Caller) IN
       regen' = [regen EXCEPT ![r] =
                   IF HasData(row)
                   THEN [@ EXCEPT !.pc = IF el \in Generated THEN "llm"
                                         ELSE "update",
                                  !.id = i, !.element = el,
                                  !.script = row, !.loaded = row]
                   ELSE [@ EXCEPT !.pc = "done", !.id = i, !.element = el,
                                  !.outcome = 404]]
    /\ UNCHANGED table
    /\ UNCHANGED <<genVars, jobVars, trendVars, parseVars>>

\* lines 152-184: the branch of the element calls the LLM and assigns the
\* answer in the loaded row; an exception of the LLM leaves the handler
RegenLLM(r, ok) ==
    /\ regen[r].pc = "llm"
    /\ regen' = [regen EXCEPT ![r] =
                   IF ok
                   THEN [@ EXCEPT !.pc = "update",
                                  !.calls = @ \cup {"llm"},
                                  !.script = ApplyElement(@, regen[r].element,
                                                          NewText(r))]
                   ELSE [@ EXCEPT !.pc = "done", !.calls = @ \cup {"llm"},
                                  !.script = NoData, !.loaded = NoData,
                                  !.outcome = 500]]
    /\ UNCHANGED table
    /\ UNCHANGED <<genVars, jobVars, trendVars, parseVars>>

\* lines 187-194: updated_at := now, then update(script).eq("id", script_id)
\* writes every column of the loaded row
RegenUpdate(r, ok) ==
    /\ regen[r].pc = "update"
    /\ LET script == [regen[r].script EXCEPT !.updated_at = now] IN
       IF ok
       THEN /\ table' = [table EXCEPT ![regen[r].id] = script]
            /\ regen' = [regen EXCEPT ![r] =
                           [@ EXCEPT !.pc = "done", !.script = NoData,
                                     !.loaded = NoData,
                                     !.calls = @ \cup {"update"},
                                     !.outcome = 200]]
       ELSE /\ regen' = [regen EXCEPT ![r] =
                           [@ EXCEPT !.pc = "done", !.script = NoData,
                                     !.loaded = NoData,
                                     !.calls = @ \cup {"update"},
                                     !.outcome = 500]]
            /\ UNCHANGED table
    /\ UNCHANGED <<genVars, jobVars, trendVars, parseVars>>

(***************************************************************************)
(* Parsing of the LLM response: LLMService._parse_script_response.         *)
(***************************************************************************)
\* A text is a sequence of pieces: the newline, words that hold a marker,
\* a word that holds none, and a JSON document.
Newline == "\n"
JsonDoc == "{script}"
\* JSON documents that are not the object the prompt asks for: an object
\* without the key hook, and an empty array
JsonNoHook == "{no hook}"
JsonArray == "[]"
JsonDocs == {JsonDoc, JsonNoHook, JsonArray}
Alphabet ==
    {Newline, "Hook:", "cta:", "Call To Action:", "word"} \cup JsonDocs
Texts == UNION {[1..n -> Alphabet] : n \in 0..MaxTextLen}

\* str.lower() of a piece
Lower(piece) ==
    IF piece = "Hook:" THEN "hook:"
    ELSE IF piece = "Call To Action:" THEN "call to action:"
    ELSE piece

\* `marker in line.lower()`
Contains(line, marker) == \E k \in DOMAIN line : Lower(line[k]) = marker

\* the text without its newlines
RECURSIVE Strip(_)
Strip(text) ==
    IF text = <<>> THEN <<>>
    ELSE IF Head(text) = Newline THEN Strip(Tail(text))
    ELSE <<Head(text)>> \o Strip(Tail(text))

\* json.loads(response) succeeds: the text is one JSON document, with
\* whitespace around it at most
IsJson(text) == \E d \in JsonDocs : Strip(text) = <<d>>

\* json.loads(response): the value of the document, whatever it is; an
\* object is the record of its keys, the empty array the empty sequence
JsonLoads(text) ==
    IF Strip(text) = <<JsonArray>> THEN <<>>
    ELSE IF Strip(text) = <<JsonNoHook>>
    THEN [title |-> <<"a title">>, content |-> <<"a content">>,
          call_to_action |-> <<"a cta">>]
    ELSE [title |-> <<"a title">>, hook |-> <<"a hook">>,
          content |-> <<"a content">>, call_to_action |-> <<"a cta">>]

\* response.split('\n')
RECURSIVE Split(_)
Split(text) ==
    IF \A k \in DOMAIN text : text[k] # Newline THEN <<text>>
    ELSE LET i == CHOOSE k \in DOMAIN text :
                    /\ text[k] = Newline
                    /\ \A m \in 1..(k - 1) : text[m] # Newline IN
         <<SubSeq(text, 1, i - 1)>> \o Split(SubSeq(text, i + 1, Len(text)))

\* lines[k], which raises IndexError outside the list; k counts from 1
Index(lines, k) ==
    IF k \in DOMAIN lines THEN [raised |-> FALSE, v |-> lines[k]]
    ELSE [raised |-> TRUE, v |-> <<>>]

\* the line after line i, taken without a test
NextLineUnguarded(lines, i) == Index(lines, i + 1)

\* lines 396 and 398: lines[i+1] if i+1 < len(lines) else line
NextLine(lines, i) ==
    IF i < Len(lines) THEN Index(lines, i + 1) ELSE Index(lines, i)

\* line 386
PlaceholderTitle == <<"Script generado">>

\* lines 385-390: the result the fallback starts from
Fallback(text) ==
    [raised |-> FALSE,
     value |-> [title |-> PlaceholderTitle, hook |-> <<>>, content |-> text,
                call_to_action |-> <<>>]]

\* lines 394-398: the loop over the lines, from line i on
RECURSIVE Scan(_, _, _)
Scan(lines, i, result) ==
    IF i > Len(lines) \/ result.raised THEN result
    ELSE IF Contains(lines[i], "hook:")
    THEN Scan(lines, i + 1,
              [result EXCEPT !.raised = NextLine(lines, i).raised,
                             !.value.hook = NextLine(lines, i).v])
    ELSE IF Contains(lines[i], "cta:")
            \/ Contains(lines[i], "call to action:")
    THEN Scan(lines, i + 1,
              [result EXCEPT !.raised = NextLine(lines, i).raised,
                             !.value.call_to_action = NextLine(lines, i).v])
    ELSE Scan(lines, i + 1, result)

\* _parse_script_response, lines 378-401
ParseScriptResponse(text) ==
    IF IsJson(text) THEN [raised |-> FALSE, value |-> JsonLoads(text)]
    ELSE Scan(Split(text), 1, Fallback(text))

\* no response has been parsed
NoParse == [called |-> FALSE, raw |-> <<>>, result |-> Fallback(<<>>)]

\* one call of _parse_script_response
Parse(text) ==
    /\ ~parsed.called
    /\ parsed' = [called |-> TRUE, raw |-> text,
                  result |-> ParseScriptResponse(text)]
    /\ UNCHANGED <<genVars, jobVars, trendVars, regenVars>>

(***************************************************************************)
(* Initial states and specifications.                                      *)
(***************************************************************************)
\* no analysis has been submitted
NoJobs ==
    /\ jobs = [j \in JobIds |-> NoJob]
    /\ task = [j \in JobIds |-> NoTask]
    /\ hist = [j \in JobIds |-> <<>>]
    /\ observed = [j \in JobIds |-> <<>>]
    /\ submitResp = NoResp
    /\ snaps = <<>>
    /\ radar = IdleRadar
    /\ table = InitTable
    /\ regen = [r \in RegenReqs |-> IdleRegen]
    /\ parsed = NoParse

Init == InitGen /\ NoJobs

\* the job manager alone: no generate request is made
InitJob ==
    /\ now = 0
    /\ plan = "free"
    /\ scripts = [u \in Users |-> <<>>]
    /\ req = [r \in Reqs |-> IdleReq]
    /\ overlap = FALSE
    /\ jobs = [j \in JobIds |-> NoJob]
    /\ task = [j \in JobIds |-> NoTask]
    /\ hist = [j \in JobIds |-> <<>>]
    /\ observed = [j \in JobIds |-> <<>>]
    /\ submitResp = NoResp
    /\ snaps = <<>>
    /\ radar = IdleRadar
    /\ table = InitTable
    /\ regen = [r \in RegenReqs |-> IdleRegen]
    /\ parsed = NoParse

NextGen ==
    \/ \E r \in Reqs : CheckQuota(r)
    \/ \E r \in Reqs, ok \in BOOLEAN : GetSimilar(r, ok)
    \/ \E r \in Reqs, ok \in BOOLEAN : LLMGenerate(r, ok)
    \/ \E r \in Reqs, ok \in BOOLEAN : Embed(r, ok)
    \/ \E r \in Reqs, ok \in BOOLEAN : Insert(r, ok)
    \/ Tick

Spec == Init /\ [][NextGen]_vars

\* requests issued within one clock tick (near-simultaneous requests)
NextBurst ==
    \/ \E r \in Reqs : CheckQuota(r)
    \/ \E r \in Reqs, ok \in BOOLEAN : GetSimilar(r, ok)
    \/ \E r \in Reqs, ok \in BOOLEAN : LLMGenerate(r, ok)
    \/ \E r \in Reqs, ok \in BOOLEAN : Embed(r, ok)
    \/ \E r \in Reqs, ok \in BOOLEAN : Insert(r, ok)

SpecBurst == Init /\ [][NextBurst]_vars

\* the job manager as the code runs it: add_task executes each job once
NextJob ==
    \/ \E ok \in BOOLEAN : Submit(Caller, ok)
    \/ \E j \in JobIds, u \in Users : GetAnalysisStatus(j, u)
    \/ \E j \in JobIds, ok \in BOOLEAN : MarkProcessing(j, ok)
    \/ \E j \in JobIds, e \in AnalyzeErrors \cup {"none"} : Analyze(j, e)
    \/ \E j \in JobIds, ok \in BOOLEAN : MarkCompleted(j, ok)
    \/ \E j \in JobIds, ok \in BOOLEAN : HandleError(j, ok)

SpecJob == InitJob /\ [][NextJob]_vars

\* the job manager under at-least-once delivery of executions
NextRedeliver ==
    \/ \E ok \in BOOLEAN : Submit(Caller, ok)
    \/ \E j \in JobIds, ok \in BOOLEAN : MarkProcessing(j, ok)
    \/ \E j \in JobIds, e \in AnalyzeErrors \cup {"none"} : Analyze(j, e)
    \/ \E j \in JobIds, ok \in BOOLEAN : MarkCompleted(j, ok)
    \/ \E j \in JobIds, ok \in BOOLEAN : HandleError(j, ok)
    \/ \E j \in JobIds : Redeliver(j)

SpecRedeliver == InitJob /\ [][NextRedeliver]_vars

\* the detached executions: the job executions and the run of the radar
NextBackground ==
    \/ \E ok \in BOOLEAN : Submit(Caller, ok)
    \/ \E j \in JobIds, ok \in BOOLEAN : MarkProcessing(j, ok)
    \/ \E j \in JobIds, e \in AnalyzeErrors \cup {"none"} : Analyze(j, e)
    \/ \E j \in JobIds, ok \in BOOLEAN : MarkCompleted(j, ok)
    \/ \E j \in JobIds, ok \in BOOLEAN : HandleError(j, ok)
    \/ \E e \in RadarErrors \cup {"none"} : RadarFetch(e)
    \/ \E ok \in BOOLEAN : RadarInsert(ok)
    \/ \E ok \in BOOLEAN : RadarPrune(ok)
    \/ \E ok \in BOOLEAN : RadarHandle(ok)

SpecBackground == InitJob /\ [][NextBackground]_vars

\* the job executions with the results of the analysis steps: the
\* recommendations fail only where _generate_recommendations raises, and
\* the store updates succeed
NextRecommend ==
    \/ Submit(Caller, TRUE)
    \/ \E j \in JobIds : MarkProcessing(j, TRUE)
    \/ \E j \in JobIds, e \in {"technical", "llm"} : Analyze(j, e)
    \/ \E j \in JobIds, t \in TechnicalResults, q \in QualitativeResults :
          AnalyzeVideo(j, t, q)
    \/ \E j \in JobIds : MarkCompleted(j, TRUE)
    \/ \E j \in JobIds : HandleError(j, TRUE)

SpecRecommend == InitJob /\ [][NextRecommend]_vars

\* the runs of the radar over the months, with a store that answers
NextTrends ==
    \/ \E e \in RadarErrors \cup {"none"} : RadarFetch(e)
    \/ RadarInsert(TRUE)
    \/ RadarPrune(TRUE)
    \/ RadarHandle(TRUE)
    \/ RadarAgain
    \/ Tick

SpecTrends == InitJob /\ [][NextTrends]_vars

\* regenerate_script_element on a table holding one script of each user
NextRegen ==
    \/ \E r \in RegenReqs, i \in ScriptIds, el \in Elements :
          RegenLoad(r, i, el)
    \/ \E r \in RegenReqs, ok \in BOOLEAN : RegenLLM(r, ok)
    \/ \E r \in RegenReqs, ok \in BOOLEAN : RegenUpdate(r, ok)
    \/ Tick

SpecRegen == InitJob /\ [][NextRegen]_vars

\* the lookups by id: both users have analyses of theirs accepted, and the
\* caller makes regenerate requests for its own script, for the other
\* user's script and for an id no row has
NextAccess ==
    \/ \E u \in Users : Submit(u, TRUE)
    \/ \E r \in RegenReqs, i \in ScriptIds, el \in Elements :
          RegenLoad(r, i, el)
    \/ \E r \in RegenReqs, ok \in BOOLEAN : RegenLLM(r, ok)
    \/ \E r \in RegenReqs, ok \in BOOLEAN : RegenUpdate(r, ok)

SpecAccess == InitJob /\ [][NextAccess]_vars

\* the parser applied to each text, once per behaviour
NextParse == ~parsed.called /\ \E text \in Texts : Parse(text)

SpecParse == InitJob /\ [][NextParse]_vars

(***************************************************************************)
(* Properties of generate_script.                                          *)
(***************************************************************************)
\* the caller's scripts created in the calendar month of t (the reference
\* window: created_at >= 00:00 of the first day of the month)
MonthCount(t) == CountSince(scripts[Caller], MonthStart(t))

\* request r takes its admission decision in this step
Decides(r) == req[r].pc = "idle" /\ req'[r].pc # "idle"

\* C1: for a free-plan user whose generate requests never overlap, the
\* number of persisted scripts created in the current calendar month never
\* exceeds 5, at any clock time.
C1_SequentialQuotaCeiling ==
    (plan = "free" /\ ~overlap) => MonthCount(now) <= QuotaLimit

\* C2: when requests of a free-plan user overlap, the number of persisted
\* scripts of the current calendar month exceeds the ceiling by at most
\* one: it never exceeds 6.
C2_OverlapExceedsByAtMostOne ==
    (plan = "free" /\ overlap) => MonthCount(now) <= QuotaLimit + 1

\* C3: a request of a free-plan user whose counted scripts of the month are
\* 5 or more ends with the quota error, HTTP 403, as its outcome.
C3_QuotaOutcomeIs403 ==
    [][\A r \in Reqs :
         (Decides(r) /\ plan = "free"
            /\ LimitReached(ScriptsCount(Caller, now)))
         => req'[r].outcome = RaisedStatus("quota")]_vars

\* C4: for a free-plan user the admission decision is the reference
\* decision: admitted iff fewer than 5 of the user's scripts have
\* created_at at or after 00:00 of the first day of the current month.
C4_AdmissionMatchesReference ==
    [][\A r \in Reqs :
         (Decides(r) /\ plan = "free")
         => ((req'[r].raised # "quota") <=> (MonthCount(now) < QuotaLimit))]_vars

\* C5: a quota-rejected request has no side effects: it makes no similarity
\* lookup, no LLM call, no embedding call and no insert, then or later, and
\* the step that rejects it leaves the scripts table unchanged.
C5_RejectionHasNoSideEffects ==
    [][\A r \in Reqs :
         req'[r].raised = "quota"
         => /\ req'[r].calls = {}
            /\ req'[r].pc = "done"
            /\ (req[r].raised # "quota" => scripts' = scripts)]_vars

C5_Witness ==
    \E r \in Reqs : req[r].raised = "quota" /\ req[r].pc = "done"

\* C6: a request of a paid-plan user is never rejected for quota, whatever
\* the number of scripts the user has this month, and a successful run
\* persists exactly one new script.
C6_PaidAlwaysAdmitted ==
    [][plan = "creator" =>
         \A r \in Reqs :
           /\ Decides(r) => (req'[r].pc = "similar" /\ req'[r].raised = "none")
           /\ (req[r].pc = "insert" /\ req'[r].outcome = 200)
              => scripts'[Caller] = Append(scripts[Caller], now)]_vars

C6_Witness ==
    /\ plan = "creator"
    /\ MonthCount(now) > QuotaLimit
    /\ \E r \in Reqs : req[r].outcome = 200

(***************************************************************************)
(* Properties of the analysis job lifecycle.                               *)
(***************************************************************************)
RECURSIVE IsSubseq(_, _)
\* s is a subsequence of t
IsSubseq(s, t) ==
    IF s = <<>> THEN TRUE
    ELSE IF t = <<>> THEN FALSE
    ELSE IF Head(s) = Head(t) THEN IsSubseq(Tail(s), Tail(t))
    ELSE IsSubseq(s, Tail(t))

\* the number of times status st was written to job j
Writes(j, st) == Cardinality({i \in DOMAIN hist[j] : hist[j][i] = st})

SuccessPath == <<"queued", "processing", "completed">>
FailurePath == <<"queued", "processing", "failed">>
OnLifecycle(s) == IsSubseq(s, SuccessPath) \/ IsSubseq(s, FailurePath)

\* C7: for every stored job, executed once, the status values written and
\* the status values a poller observes form a subsequence of
\* [queued, processing, completed] or of [queued, processing, failed];
\* completed and failed are never both written and each at most once.
C7_StatusSequenceOnLifecycle ==
    \A j \in JobIds :
        jobs[j].status # "absent" =>
            /\ OnLifecycle(observed[j])
            /\ OnLifecycle(hist[j])
            /\ Writes(j, "completed") <= 1
            /\ Writes(j, "failed") <= 1
            /\ Writes(j, "completed") + Writes(j, "failed") <= 1

C7_Witness ==
    \E j, k \in JobIds : observed[j] = SuccessPath /\ observed[k] = FailurePath

\* C8: when the execution of a job is delivered more than once, no status
\* is written to the job after its first terminal status: the record does
\* not return to processing and gets no second terminal write.
C8_NoWriteAfterTerminal ==
    \A j \in JobIds :
        \A i \in DOMAIN hist[j] :
            hist[j][i] \in Terminal => i = Len(hist[j])

\* C9: within one job no terminal status is written unless processing was
\* written to that job before, also when a step or a store update fails.
C9_ProcessingBeforeTerminal ==
    \A j \in JobIds :
        \A i \in DOMAIN hist[j] :
            hist[j][i] \in Terminal =>
                \E k \in 1..(i - 1) : hist[j][k] = "processing"

\* C10: in every state of every job record, results are present only if
\* the status is completed, an error only if the status is failed, and no
\* record carries both.
C10_ResultsAndErrorMatchStatus ==
    \A j \in JobIds :
        /\ jobs[j].results # "none" => jobs[j].status = "completed"
        /\ jobs[j].error # "none" => jobs[j].status = "failed"
        /\ ~(jobs[j].results # "none" /\ jobs[j].error # "none")

C10_Witness ==
    \E j, k \in JobIds :
        /\ jobs[j].status = "completed" /\ jobs[j].results # "none"
        /\ jobs[k].status = "failed" /\ jobs[k].error # "none"

(***************************************************************************)
(* Properties of the background execution.                                 *)
(***************************************************************************)
\* the number of times x occurs in the sequence s
Occurrences(s, x) == Cardinality({i \in DOMAIN s : s[i] = x})

C12_EndedExecutionLeavesJobTerminal ==
    \A j \in JobIds :
        task[j].pc \in {"done", "raised"} => jobs[j].status \in Terminal

\* C13: no exception leaves a detached execution: whatever fails, the video
\* analyzer, the LLM, the trend source or a store write, neither
\* process_video_analysis nor TrendsRadar.run ends by raising.
C13_NoExceptionLeavesBackground ==
    /\ \A j \in JobIds : task[j].pc # "raised"
    /\ radar.pc # "raised"

\* C14: when analyze_video returns successfully, the job row has just been
\* created with the caller as owner and status queued, the response reports
\* status queued, and one execution has been scheduled for that job id and
\* for no other; the execution has not started when the response is given;
\* when creating the row fails, no row and no execution are added. Every
\* job has one execution scheduled, no more.
C14_SubmitCreatesQueuedRowAndOneExecution ==
    /\ [](\A j \in JobIds :
            jobs[j].status # "absent" <=> task[j].deliveries = 1)
    /\ [][/\ submitResp' # submitResp /\ submitResp'.code = 200
             => LET j == submitResp'.analysis_id IN
                /\ submitResp'.status = "queued"
                /\ jobs[j].status = "absent"
                /\ jobs'[j].status = "queued"
                /\ jobs'[j].user_id = Caller
                /\ hist'[j] = <<"queued">>
                /\ task[j].pc = "none"
                /\ task'[j].pc = "start"
                /\ \A k \in JobIds \ {j} :
                       task'[k] = task[k] /\ jobs'[k] = jobs[k]
          /\ submitResp' # submitResp /\ submitResp'.code # 200
             => jobs' = jobs /\ task' = task
          /\ \A j \in JobIds :
                (jobs[j].status = "absent" /\ jobs'[j].status # "absent")
                \/ (task[j].pc = "none" /\ task'[j].pc # "none")
                => submitResp' # submitResp /\ submitResp'.code = 200
                   /\ submitResp'.analysis_id = j]_vars

\* a submission has been accepted and its execution has not started; an
\* earlier job has already been executed
C14_Witness ==
    \E j \in JobIds :
        /\ submitResp = Accepted(j)
        /\ jobs[j].status = "queued"
        /\ jobs[j].user_id = Caller
        /\ task[j].pc = "start"
        /\ \E k \in JobIds \ {j} : jobs[k].status = "completed"

(***************************************************************************)
(* Properties of regenerate_script_element.                                *)
(***************************************************************************)
\* the columns of a script row
Fields == DOMAIN NoData

\* the column a hook or cta regeneration is about
ElementField(el) == IF el = "hook" THEN "hook" ELSE "call_to_action"

\* request r writes its row in this step
Writes200(r) ==
    regen[r].pc = "update" /\ regen'[r].pc = "done" /\ regen'[r].outcome = 200

\* C15: a regeneration of hook or of cta, with no other write to the same
\* script between its load and its write, changes that one field and
\* updated_at only: every other column of the row is the same after the
\* request as before it, and so is every other row.
C15_HookOrCtaChangesOneField ==
    [][\A r \in RegenReqs :
         (/\ Writes200(r)
          /\ regen[r].element \in {"hook", "cta"}
          /\ table[regen[r].id] = regen[r].loaded)
         => LET i == regen[r].id
                f == ElementField(regen[r].element) IN
            /\ \A g \in Fields \ {f, "updated_at"} :
                   table'[i][g] = regen[r].loaded[g]
            /\ table'[i][f] = NewText(r)
            /\ table'[i].updated_at = now
            /\ \A k \in DOMAIN table \ {i} : table'[k] = table[k]]_vars

\* a hook regeneration has been written at a later time than the script
\* was created: the row has the new hook and its old call to action
C15_Witness ==
    \E r \in RegenReqs :
        /\ regen[r].pc = "done"
        /\ regen[r].element = "hook"
        /\ regen[r].outcome = 200
        /\ table[OwnScript].hook = NewText(r)
        /\ table[OwnScript].call_to_action = 0
        /\ table[OwnScript].updated_at > table[OwnScript].created_at

\* C16: a full regeneration replaces title, content, hook and
\* call_to_action by the newly generated values in the one update it makes
\* and sets updated_at; tone, duration, platform, id and user_id stay as
\* they were, and no script row is created.
C16_FullReplacesFourFields ==
    [][\A r \in RegenReqs :
         (Writes200(r) /\ regen[r].element = "full")
         => LET i == regen[r].id IN
            /\ \A g \in {"title", "content", "hook", "call_to_action"} :
                   table'[i][g] = NewText(r)
            /\ table'[i].updated_at = now
            /\ \A g \in {"tone", "duration", "platform", "id", "user_id"} :
                   table'[i][g] = table[i][g]
            /\ regen'[r].calls = {"llm", "update"}
            /\ DOMAIN table' = DOMAIN table
            /\ \A k \in DOMAIN table \ {i} : table'[k] = table[k]]_vars

\* a full regeneration has been written over an earlier hook regeneration
C16_Witness ==
    \E r \in RegenReqs :
        /\ regen[r].pc = "done"
        /\ regen[r].element = "full"
        /\ regen[r].outcome = 200
        /\ \A g \in {"title", "content", "hook", "call_to_action"} :
               table[OwnScript][g] = NewText(r)
        /\ \E q \in RegenReqs \ {r} :
               regen[q].element = "hook" /\ regen[q].outcome = 200

\* the other one of the columns hook and call_to_action
OtherField(el) == IF el = "hook" THEN "call_to_action" ELSE "hook"

\* C17: when regenerations of different elements of one script overlap, so
\* that the row has been written by another request between the load and
\* the write of a hook or cta regeneration, that write still replaces its
\* own field only: it does not put the other one of hook and
\* call_to_action back to an older value.
C17_OverlappingWriteKeepsOtherField ==
    [][\A r \in RegenReqs :
         (/\ Writes200(r)
          /\ regen[r].element \in {"hook", "cta"}
          /\ table[regen[r].id] # regen[r].loaded)
         => LET i == regen[r].id
                g == OtherField(regen[r].element) IN
            table'[i][g] = table[i][g]]_vars

\* C18: a regeneration whose element is none of hook, cta and full is
\* rejected with a client error, and the stored script, updated_at
\* included, is left as it was.
C18_OtherElementRejectedUnchanged ==
    [][\A r \in RegenReqs :
         (/\ regen[r].element \in Elements \ Generated
          /\ regen[r].pc # "done"
          /\ regen'[r].pc = "done")
         => /\ regen'[r].outcome \in 400..499
            /\ table' = table]_vars

(***************************************************************************)
(* Properties of the lookups by id.                                        *)
(***************************************************************************)
\* the table without the row of id i
WithoutScript(tbl, i) == [k \in DOMAIN tbl \ {i} |-> tbl[k]]

\* the table without the analysis of id j
WithoutAnalysis(tbl, j) == [tbl EXCEPT ![j] = NoJob]

\* C19: for get_script, regenerate_script_element and get_analysis_status,
\* a record owned by another user is the same to the caller as a record
\* that does not exist: the answer is the 404 the caller would get with the
\* record taken out of the store, a regenerate request for it ends with 404
\* without an LLM call and without a store write, as it does for an id no
\* row has, and the other user's script is never changed.
C19_ForeignRecordIsAsAbsent ==
    /\ \A i \in DOMAIN table, u \in Users :
          table[i].user_id # u
          => /\ GetScriptResponse(table, i, u).code = 404
             /\ GetScriptResponse(table, i, u)
                  = GetScriptResponse(WithoutScript(table, i), i, u)
    /\ \A j \in JobIds, u \in Users :
          (jobs[j].status # "absent" /\ jobs[j].user_id # u)
          => /\ AnalysisStatusResponse(jobs, j, u).code = 404
             /\ AnalysisStatusResponse(jobs, j, u)
                  = AnalysisStatusResponse(WithoutAnalysis(jobs, j), j, u)
    /\ \A r \in RegenReqs :
          regen[r].id \in {ForeignScript, MissingScript}
          => regen[r] = [IdleRegen EXCEPT !.pc = "done", !.outcome = 404,
                                          !.id = regen[r].id,
                                          !.element = regen[r].element]
    /\ table[ForeignScript] = InitTable[ForeignScript]

\* the caller has asked to regenerate the other user's script and an id no
\* row has, while an analysis of each user is stored
C19_Witness ==
    /\ \E r, q \in RegenReqs :
          /\ regen[r].id = ForeignScript
          /\ regen[q].id = MissingScript
          /\ regen[r].outcome = 404
          /\ regen[q].outcome = 404
    /\ \E j, k \in JobIds :
          jobs[j].user_id = Caller /\ jobs[k].user_id = Other

(***************************************************************************)
(* Properties of _parse_script_response.                                   *)
(***************************************************************************)
\* the text holds no hook, cta or call-to-action marker
NoMarker(text) ==
    \A k \in DOMAIN text :
        Lower(text[k]) \notin {"hook:", "cta:", "call to action:"}

\* C20: on a text that is not valid JSON the parser never raises; when the
\* text holds no hook, cta or call-to-action marker, the result is the raw
\* text as content, the placeholder title, and an empty hook and an empty
\* call_to_action.
C20_FallbackNeverRaises ==
    (parsed.called /\ ~IsJson(parsed.raw))
    => /\ ~parsed.result.raised
       /\ NoMarker(parsed.raw)
          => parsed.result.value =
               [title |-> PlaceholderTitle, hook |-> <<>>,
                content |-> parsed.raw, call_to_action |-> <<>>]

\* a text of several lines without a marker has been parsed
C20_Witness ==
    /\ parsed.called
    /\ ~IsJson(parsed.raw)
    /\ NoMarker(parsed.raw)
    /\ Len(Split(parsed.raw)) >= 2
    /\ \E k \in DOMAIN parsed.raw : parsed.raw[k] = "word"
    /\ ~parsed.result.raised

\* the keys of a parsed script
ScriptKeys == {"title", "hook", "content", "call_to_action"}

\* C21: for every raw model output the parser returns a structure that has
\* all four fields title, hook, content and call_to_action, for text that
\* is not JSON and for text that parses as JSON without being the declared
\* object (an array, an object missing one of the fields).
C21_ParseAlwaysHasFourFields ==
    parsed.called
    => /\ ~parsed.result.raised
       /\ ScriptKeys \subseteq DOMAIN parsed.result.value

(***************************************************************************)
(* Properties of the best-effort steps of generate_script.                 *)
(***************************************************************************)
\* C22: the similarity lookup never raises: when the embedding provider or
\* the similarity index fails, it gives the empty sequence and the generate
\* request goes on to the LLM call, so no request ends with the failure of
\* the lookup.
C22_FindSimilarNeverRaises ==
    \A r \in Reqs :
        "similar" \in req[r].calls
        => /\ req[r].raised # "similar"
           /\ req[r].pc \in {"llm", "embed", "insert", "done"}
           /\ req[r].pc = "done" /\ req[r].outcome # 200
              => req[r].raised \in {"llm", "embed", "insert"}

\* C23: when the LLM call has succeeded and computing the embedding of the
\* content fails, the request still goes on to the insert and answers 200:
\* no request ends with the failure of the embedding.
C23_EmbeddingFailureStillPersists ==
    \A r \in Reqs :
        "embed" \in req[r].calls
        => /\ req[r].raised # "embed"
           /\ req[r].pc \in {"insert", "done"}

(***************************************************************************)
(* Properties of the recommendations.                                      *)
(***************************************************************************)
\* the elements of a sequence
Range(s) == {s[i] : i \in DOMAIN s}

C30_RecommendationsNeverFailJob ==
    \A j \in JobIds :
        (task[j].steps = Pipeline /\ task[j].pc = "done")
        => /\ jobs[j].status = "completed"
           /\ DOMAIN jobs[j].results =
                {"technical", "qualitative", "recommendations"}

(***************************************************************************)
(* Properties of the trends radar.                                         *)
(***************************************************************************)
\* the run ends successfully in this step: its prune has been applied
RunSucceeds == radar.pc = "prune" /\ radar'.pc = "done"

C27_PruneKeepsCurrentMonth ==
    [][RunSucceeds
       => \A i \in DOMAIN snaps :
             snaps[i].date >= MonthStart(now)
             => \E k \in DOMAIN snaps' : snaps'[k] = snaps[i]]_vars

(***************************************************************************)
(* Properties of the stored embedding.                                     *)
(***************************************************************************)
\* C28: in every reachable state the embedding stored with a script is null
\* or the embedding of the content the script has now, after any sequence
\* of regenerations, those of the full script included.
C28_EmbeddingMatchesContent ==
    \A i \in DOMAIN table :
        \/ table[i].embedding = NullEmbedding
        \/ table[i].embedding = EmbeddingOf(table[i].content)

(***************************************************************************)
(* Properties of the fallback extraction.                                  *)
(***************************************************************************)
\* the line after line i, the empty text when line i is the last one
Following(lines, i) == IF i < Len(lines) THEN lines[i + 1] ELSE <<>>

\* the lines that hold a hook marker, and those that hold a cta marker
HookLines(lines) == {i \in DOMAIN lines : Contains(lines[i], "hook:")}
CtaLines(lines) ==
    {i \in DOMAIN lines :
        Contains(lines[i], "cta:") \/ Contains(lines[i], "call to action:")}

\* C29: in the fallback, when one line holds the hook marker the returned
\* hook is the line that follows that line, wherever the marker line stands
\* in the text, the last line included; likewise for the cta markers and
\* call_to_action; a field with no marker line stays empty.
C29_MarkerTakesFollowingLine ==
    (parsed.called /\ ~IsJson(parsed.raw))
    => LET lines == Split(parsed.raw) IN
       /\ \A i \in HookLines(lines) :
             HookLines(lines) = {i}
             => parsed.result.value.hook = Following(lines, i)
       /\ \A i \in CtaLines(lines) :
             (CtaLines(lines) = {i} /\ HookLines(lines) = {})
             => parsed.result.value.call_to_action = Following(lines, i)
       /\ HookLines(lines) = {} => parsed.result.value.hook = <<>>
       /\ CtaLines(lines) = {}
          => parsed.result.value.call_to_action = <<>>

====
